---- MODULE Spec2Model ----
(***************************************************************************)
(* Session and authorization layer of the todo API.                        *)
(*                                                                         *)
(* AuthController (refreshToken, signUp, signIn, googleSignIn, signOut,    *)
(* sync) and the Authorize gates (authorizeUser, authorizeTodo) are        *)
(* translated                                                              *)
(* from the source.  The identity store (User, Social, Todo collections),  *)
(* the token utilities (generateUserTokens, handleRefreshToken), the input *)
(* validators and the todo handlers are collaborators whose code is not    *)
(* part of the sources; they are modelled from the specification.          *)
(*                                                                         *)
(* In Spec and SpecTodo requests are handled one at a time: an action is   *)
(* one whole request, from its arrival to its terminal outcome.  Spec is   *)
(* the authentication controller, SpecTodo the routes behind the           *)
(* authorization gates; SpecRefresh adds refresh requests that meet a      *)
(* store failure, SpecGoogle starts from a store that holds a local user.  *)
(* In SpecConc and SpecSignOut the requests of several clients are         *)
(* interleaved at the handlers' calls to the store.                        *)
(***************************************************************************)
EXTENDS Integers, Sequences, FiniteSets, TLC

\* ---------------------------------------------------------------- bounds
MaxTokens == 2      \* refresh tokens minted in one behaviour
MaxTodos == 2       \* todos created in one behaviour

\* ---------------------------------------------------------------- inputs
LocalUsernames == {"johndoe", "janedoe"}
GoogleSubs == {"g-1001"}
Emails == {"john@doe.com", "jane@doe.com"}
Passwords == {"johndoe"}           \* passwords users sign up with
WrongPassword == "doejohn"         \* well-formed, and no user's password
FirstNames == {"John"}
UnknownIdentifier == "doejohn"     \* well-formed, and no user's username or email
Invalid == ""                      \* a value every validator rejects
Undefined == "undefined"           \* an absent field

\* ---------------------------------------------------------------- state
VARIABLES
  users,      \* User collection
  socials,    \* Social collection
  todos,      \* Todo collection
  nextTok,    \* serial of the next token the signing primitive mints
  issued,     \* the refresh tokens clients have been handed
  expired,    \* refresh tokens with a serial up to this one have expired
  rotated,    \* history: refresh tokens a refresh request has rotated out
  signedOut,  \* history: refresh tokens an interleaved sign-out presenting
              \* them has completed with 200
  resp,       \* the request just handled and its terminal outcome, until
              \* the client has received it
  inflight    \* per client: the request suspended at a store call, with
              \* what it has read so far (interleaved specifications only)

vars == <<users, socials, todos, nextTok, issued, expired, rotated, signedOut,
          resp, inflight>>

\* A refresh token: signed claims.  `signed` is FALSE for a forgery and for
\* the absent token.
Token(id, username) == [id |-> id, username |-> username, signed |-> TRUE]
NoToken == [id |-> 0, username |-> Undefined, signed |-> FALSE]
Forged(username) == [id |-> 0, username |-> username, signed |-> FALSE]

\* Stored password: the bcrypt hash of the clear text, or absent.
Hash(p) == [alg |-> "bcrypt", of |-> p]
NoPassword == [alg |-> Undefined, of |-> ""]

NoError == "none"
Null == [null |-> TRUE]

\* Outcome of a request: the response sent (status 0: none) and the error
\* passed to next ("none": next was not called with an error).
Sent(status, message, tokens) ==
  [status |-> status, err |-> NoError, message |-> message, tokens |-> tokens]
Thrown(name, message) ==
  [status |-> 0, err |-> name, message |-> message, tokens |-> NoToken]

\* ------------------------------------------------------- identity store
\* A document's _id is modelled by its key: a user's by the username, which
\* is unique and never changes.

\* Model.findOne(filter): a document matching the filter, or null.  Which
\* one of several matches is returned is not defined by the store.
\* `matching` is the set of documents the filter matches.
FindOne(matching) == IF matching = {} THEN {Null} ELSE matching

\* User.create with no unique index on username and email.
CanCreateUser_noIndex(us, doc) == TRUE

\* User.create(doc): username and email are unique; the store rejects a
\* duplicate with its own error.
CanCreateUser(us, doc) ==
  \A u \in us : u.username # doc.username /\ u.email # doc.email

\* User.updateOne({username}, {refreshTokens}): no match is not an error.
UpdateRefreshTokens(us, username, tokens) ==
  {IF u.username = username THEN [u EXCEPT !.refreshTokens = tokens] ELSE u : u \in us}

\* refreshTokens.filter((refreshToken) => refreshToken != received)
FilterOut(refreshTokens, received) ==
  SelectSeq(refreshTokens, LAMBDA stored : stored # received)

InList(seq, x) == \E k \in 1..Len(seq) : seq[k] = x

\* ------------------------------------------------------------ validators
CustomValidator_firstName(v) == IF v = Invalid THEN "First name is invalid." ELSE NoError
CustomValidator_username(v) == IF v = Invalid THEN "Username is invalid." ELSE NoError
CustomValidator_email(v) == IF v = Invalid THEN "Email is invalid." ELSE NoError
CustomValidator_password(v) == IF v = Invalid THEN "Password is invalid." ELSE NoError
CustomValidator_userIdentifier(v) ==
  IF v = Invalid THEN "Username or email is invalid." ELSE NoError

\* ----------------------------------------------------------- token utils
\* jwt.verify(token, secret): the claims, or a throw for a bad signature
\* or an expired token.
jwtVerify(tok, exp) == tok.signed /\ tok.id > exp

\* bcryptjs compareSync(s, hash): throws when the hash is not a string.
compareSync(s, hash) ==
  IF hash.alg = Undefined THEN "throw"
  ELSE IF hash.of = s THEN "true" ELSE "false"

\* generateUserTokens(claims, purpose): mints a pair; for a sign-in the
\* refresh token is appended to the allowlist of the user named by the
\* claims, for a sign-up the caller stores it.
generateUserTokens(us, nt, username, purpose) ==
  [refreshToken |-> Token(nt, username),
   users |-> IF purpose = "signUp" THEN us
             ELSE {IF u.username = username
                     THEN [u EXCEPT !.refreshTokens = Append(@, Token(nt, username))]
                     ELSE u : u \in us}]

\* Rotation that appends the new refresh token and leaves the presented one
\* in the allowlist.
handleRefreshToken_keepsPresented(us, exp, nt, rft) ==
  LET owner == {u \in us : u.username = rft.username}
      fresh == Token(nt, rft.username)
      failed(message) == [err |-> "RefreshTokenError", message |-> message,
                          refreshToken |-> NoToken, users |-> us]
  IN  IF ~jwtVerify(rft, exp) THEN failed("Invalid refresh token.")
      ELSE IF owner = {} THEN failed("User not found.")
      ELSE LET u == CHOOSE u \in owner : TRUE IN
           IF ~InList(u.refreshTokens, rft)
             THEN failed("Refresh token is not recognized.")
             ELSE [err |-> NoError, message |-> "", refreshToken |-> fresh,
                   users |-> UpdateRefreshTokens(us, rft.username,
                     Append(u.refreshTokens, fresh))]

\* handleRefreshToken(refreshToken): rotation.  Fails RefreshTokenError when
\* the token does not verify, its user is gone, or it is not in the user's
\* allowlist; otherwise removes it and appends the new refresh token in one
\* store update.
handleRefreshToken(us, exp, nt, rft) ==
  LET owner == {u \in us : u.username = rft.username}
      fresh == Token(nt, rft.username)
      failed(message) == [err |-> "RefreshTokenError", message |-> message,
                          refreshToken |-> NoToken, users |-> us]
  IN  IF ~jwtVerify(rft, exp) THEN failed("Invalid refresh token.")
      ELSE IF owner = {} THEN failed("User not found.")
      ELSE LET u == CHOOSE u \in owner : TRUE IN
           IF ~InList(u.refreshTokens, rft)
             THEN failed("Refresh token is not recognized.")
             ELSE [err |-> NoError, message |-> "", refreshToken |-> fresh,
                   users |-> UpdateRefreshTokens(us, rft.username,
                     Append(FilterOut(u.refreshTokens, rft), fresh))]

\* ------------------------------------------------------- AuthController
\* Each handler is an operator from the request and the store to the
\* outcome and the store it leaves.  The documents findOne returned are
\* parameters.
Result(out, us, nt) == [out |-> out, users |-> us, nextTok |-> nt]

\* req.signedCookies.rft || req.cookies.rft || req.body.rft
refreshTokenReceived(req) ==
  IF req.signedCookie # NoToken THEN req.signedCookie
  ELSE IF req.cookie # NoToken THEN req.cookie
  ELSE req.body

\* refreshToken with the catch passing every error on unchanged.
refreshToken_unmapped(us, exp, nt, req) ==
  LET h == handleRefreshToken(us, exp, nt, refreshTokenReceived(req))
  IN  IF h.err = NoError
        THEN Result(Sent(200, "Successfully refreshed token!", h.refreshToken),
                    h.users, nt + 1)
      ELSE Result(Thrown(h.err, h.message), us, nt)

\* The controller with a catch that turns every error into an
\* AuthorizationError.
refreshTokenResult_mapsEvery(us, nt, h) ==
  IF h.err = NoError
    THEN Result(Sent(200, "Successfully refreshed token!", h.refreshToken),
                h.users, nt + 1)
  ELSE Result(Thrown("AuthorizationError", h.message), us, nt)

\* The controller around the call of handleRefreshToken: h is what the
\* call returned or threw.
refreshTokenResult(us, nt, h) ==
  IF h.err = NoError
    THEN Result(Sent(200, "Successfully refreshed token!", h.refreshToken),
                h.users, nt + 1)
  ELSE IF h.err = "RefreshTokenError"
    THEN Result(Thrown("AuthorizationError", h.message), us, nt)
  ELSE Result(Thrown(h.err, h.message), us, nt)

refreshToken(us, exp, nt, req) ==
  refreshTokenResult(us, nt, handleRefreshToken(us, exp, nt, refreshTokenReceived(req)))

\* handleRefreshToken when the store cannot be reached: the driver's error.
StoreFailure(us) ==
  [err |-> "MongoError", message |-> "connection timed out",
   refreshToken |-> NoToken, users |-> us]

\* signUp creating the user without the minted refresh token.
signUp_noAllowlist(us, nt, body, existedUser) ==
  LET validations == {CustomValidator_firstName(body.firstName),
                      CustomValidator_username(body.username),
                      CustomValidator_email(body.email),
                      CustomValidator_password(body.password)}
      newUserTokens == generateUserTokens(us, nt, body.username, "signUp")
      doc == [username |-> body.username, email |-> body.email,
              isPasswordSet |-> TRUE, password |-> Hash(body.password),
              refreshTokens |-> <<>>]
  IN  IF validations # {NoError}
        THEN Result(Thrown("ValidationError",
                           "Failed to sign up, please correct user information!"), us, nt)
      ELSE IF existedUser # Null
        THEN IF existedUser.username = body.username
               THEN Result(Thrown("AlreadyExistsError", "Username isn't available."), us, nt)
             ELSE IF existedUser.email = body.email
               THEN Result(Thrown("AlreadyExistsError", "Email isn't available."), us, nt)
             ELSE Result(Sent(0, "", NoToken), us, nt)
      ELSE IF ~CanCreateUser(us, doc)
        THEN Result(Thrown("MongoError", "E11000 duplicate key error"), us, nt + 1)
      ELSE Result(Sent(201, "Successfully signed up!", newUserTokens.refreshToken),
                  newUserTokens.users \cup {doc}, nt + 1)

\* signUp whose branch for a taken email neither throws nor responds.
signUp_emailBranchSilent(us, nt, body, existedUser) ==
  LET validations == {CustomValidator_firstName(body.firstName),
                      CustomValidator_username(body.username),
                      CustomValidator_email(body.email),
                      CustomValidator_password(body.password)}
      newUserTokens == generateUserTokens(us, nt, body.username, "signUp")
      doc == [username |-> body.username, email |-> body.email,
              isPasswordSet |-> TRUE, password |-> Hash(body.password),
              refreshTokens |-> <<newUserTokens.refreshToken>>]
  IN  IF validations # {NoError}
        THEN Result(Thrown("ValidationError",
                           "Failed to sign up, please correct user information!"), us, nt)
      ELSE IF existedUser # Null
        THEN IF existedUser.username = body.username
               THEN Result(Thrown("AlreadyExistsError", "Username isn't available."), us, nt)
             ELSE IF existedUser.email = body.email
               THEN Result(Sent(0, "", NoToken), us, nt)
             ELSE Result(Sent(0, "", NoToken), us, nt)
      ELSE IF ~CanCreateUser(us, doc)
        THEN Result(Thrown("MongoError", "E11000 duplicate key error"), us, nt + 1)
      ELSE Result(Sent(201, "Successfully signed up!", newUserTokens.refreshToken),
                  newUserTokens.users \cup {doc}, nt + 1)

signUp(us, nt, body, existedUser) ==
  LET validations == {CustomValidator_firstName(body.firstName),
                      CustomValidator_username(body.username),
                      CustomValidator_email(body.email),
                      CustomValidator_password(body.password)}
      newUserTokens == generateUserTokens(us, nt, body.username, "signUp")
      doc == [username |-> body.username, email |-> body.email,
              isPasswordSet |-> TRUE, password |-> Hash(body.password),
              refreshTokens |-> <<newUserTokens.refreshToken>>]
  IN  IF validations # {NoError}
        THEN Result(Thrown("ValidationError",
                           "Failed to sign up, please correct user information!"), us, nt)
      ELSE IF existedUser # Null
        THEN IF existedUser.username = body.username
               THEN Result(Thrown("AlreadyExistsError", "Username isn't available."), us, nt)
             ELSE IF existedUser.email = body.email
               THEN Result(Thrown("AlreadyExistsError", "Email isn't available."), us, nt)
             ELSE Result(Sent(0, "", NoToken), us, nt)
      ELSE IF ~CanCreateUser(us, doc)
        THEN Result(Thrown("MongoError", "E11000 duplicate key error"), us, nt + 1)
      ELSE Result(Sent(201, "Successfully signed up!", newUserTokens.refreshToken),
                  newUserTokens.users \cup {doc}, nt + 1)

\* signIn taking a user without a stored password as a password match.
signIn_absentHashMatches(us, nt, body, signInUser) ==
  LET validations == {CustomValidator_userIdentifier(body.userIdentifier),
                      CustomValidator_password(body.password)}
  IN  IF validations # {NoError}
        THEN Result(Thrown("ValidationError",
                           "Failed to sign in, please correct user information!"), us, nt)
      ELSE IF signInUser = Null
        THEN Result(Thrown("NotFoundError", "User not found, please sign up first!"), us, nt)
      ELSE LET tokens == generateUserTokens(us, nt, signInUser.username, "signIn")
               matches == compareSync(body.password, signInUser.password)
           IN  IF matches = "throw"
                 THEN Result(Sent(200, "Successfully signed in!", tokens.refreshToken),
                             tokens.users, nt + 1)
               ELSE IF matches = "true"
                 THEN Result(Sent(200, "Successfully signed in!", tokens.refreshToken),
                             tokens.users, nt + 1)
               ELSE Result(Thrown("BadRequestError", "Wrong username or password!"),
                           tokens.users, nt + 1)

signIn(us, nt, body, signInUser) ==
  LET validations == {CustomValidator_userIdentifier(body.userIdentifier),
                      CustomValidator_password(body.password)}
  IN  IF validations # {NoError}
        THEN Result(Thrown("ValidationError",
                           "Failed to sign in, please correct user information!"), us, nt)
      ELSE IF signInUser = Null
        THEN Result(Thrown("NotFoundError", "User not found, please sign up first!"), us, nt)
      ELSE LET tokens == generateUserTokens(us, nt, signInUser.username, "signIn")
               matches == compareSync(body.password, signInUser.password)
           IN  IF matches = "throw"
                 THEN Result(Thrown("Error", "Illegal arguments: string, undefined"),
                             tokens.users, nt + 1)
               ELSE IF matches = "true"
                 THEN Result(Sent(200, "Successfully signed in!", tokens.refreshToken),
                             tokens.users, nt + 1)
               ELSE Result(Thrown("BadRequestError", "Wrong username or password!"),
                           tokens.users, nt + 1)

\* googleClient.verifyIdToken resolves to the verified payload (sub, email)
\* or throws; NoPayload stands for the throw.
NoPayload == [sub |-> Undefined, email |-> Undefined]

googleSignIn(us, so, nt, payload, existingUser, existingSocial) ==
  LET username == payload.sub
      googleId == payload.sub
      link(userId) == [id |-> Cardinality(so) + 1, name |-> "google",
                       socialId |-> googleId, userId |-> userId]
      newUserTokens == generateUserTokens(us, nt, username, "signUp")
      tokens == generateUserTokens(us, nt, username, "signIn")
      doc == [username |-> username, email |-> payload.email,
              isPasswordSet |-> FALSE, password |-> NoPassword,
              refreshTokens |-> <<newUserTokens.refreshToken>>]
  IN  IF payload = NoPayload
        THEN [out |-> Thrown("Error", "Invalid token signature"),
              users |-> us, socials |-> so, nextTok |-> nt]
      ELSE IF existingUser = Null
        THEN IF ~CanCreateUser(us, doc)
               THEN [out |-> Thrown("MongoError", "E11000 duplicate key error"),
                     users |-> us, socials |-> so, nextTok |-> nt + 1]
               ELSE [out |-> Sent(201, "Successfully signed up!", newUserTokens.refreshToken),
                     users |-> us \cup {doc},
                     socials |-> so \cup {link(doc.username)},
                     nextTok |-> nt + 1]
      ELSE [out |-> Sent(200, "Successfully signed in!", tokens.refreshToken),
            users |-> tokens.users,
            socials |-> IF existingSocial = Null
                          THEN so \cup {link(existingUser.username)} ELSE so,
            nextTok |-> nt + 1]

\* req.signedCookies.rft || req.cookies.rft || req.headers['x-rft'] || req.body.rft
signOutReceived(req) ==
  IF req.signedCookie # NoToken THEN req.signedCookie
  ELSE IF req.cookie # NoToken THEN req.cookie
  ELSE IF req.header # NoToken THEN req.header
  ELSE req.body

\* signOut without the branch for a missing token: jwt.verify throws on it.
signOut_noMissingBranch(us, exp, nt, req, foundUser) ==
  LET receivedRefreshToken == signOutReceived(req)
  IN  IF ~receivedRefreshToken.signed
        THEN Result(Thrown("JsonWebTokenError", "jwt must be provided"), us, nt)
      ELSE IF ~jwtVerify(receivedRefreshToken, exp)
        THEN Result(Thrown("TokenExpiredError", "jwt expired"), us, nt)
      ELSE IF foundUser = Null
        THEN Result(Thrown("TypeError", "Cannot read property 'refreshTokens' of null"),
                    us, nt)
      ELSE Result(Sent(200, "Successfully signed out!", NoToken),
                  UpdateRefreshTokens(us, receivedRefreshToken.username,
                    FilterOut(foundUser.refreshTokens, receivedRefreshToken)),
                  nt)

\* signOut with the filter keeping the presented token instead of the others.
signOut_keepsPresented(us, exp, nt, req, foundUser) ==
  LET receivedRefreshToken == signOutReceived(req)
  IN  IF receivedRefreshToken = NoToken
        THEN Result(Sent(200, "Successfully signed out!", NoToken), us, nt)
      ELSE IF ~receivedRefreshToken.signed
        THEN Result(Thrown("JsonWebTokenError", "invalid signature"), us, nt)
      ELSE IF ~jwtVerify(receivedRefreshToken, exp)
        THEN Result(Thrown("TokenExpiredError", "jwt expired"), us, nt)
      ELSE IF foundUser = Null
        THEN Result(Thrown("TypeError", "Cannot read property 'refreshTokens' of null"),
                    us, nt)
      ELSE Result(Sent(200, "Successfully signed out!", NoToken),
                  UpdateRefreshTokens(us, receivedRefreshToken.username,
                    SelectSeq(foundUser.refreshTokens,
                              LAMBDA stored : stored = receivedRefreshToken)),
                  nt)

\* signOut failing when the presented token is not in the allowlist.
signOut_rejectsAbsent(us, exp, nt, req, foundUser) ==
  LET receivedRefreshToken == signOutReceived(req)
  IN  IF receivedRefreshToken = NoToken
        THEN Result(Sent(200, "Successfully signed out!", NoToken), us, nt)
      ELSE IF ~receivedRefreshToken.signed
        THEN Result(Thrown("JsonWebTokenError", "invalid signature"), us, nt)
      ELSE IF ~jwtVerify(receivedRefreshToken, exp)
        THEN Result(Thrown("TokenExpiredError", "jwt expired"), us, nt)
      ELSE IF foundUser = Null
        THEN Result(Thrown("TypeError", "Cannot read property 'refreshTokens' of null"),
                    us, nt)
      ELSE IF ~InList(foundUser.refreshTokens, receivedRefreshToken)
        THEN Result(Thrown("AuthorizationError", "Refresh token is not recognized."),
                    us, nt)
      ELSE Result(Sent(200, "Successfully signed out!", NoToken),
                  UpdateRefreshTokens(us, receivedRefreshToken.username,
                    FilterOut(foundUser.refreshTokens, receivedRefreshToken)),
                  nt)

signOut(us, exp, nt, req, foundUser) ==
  LET receivedRefreshToken == signOutReceived(req)
  IN  IF receivedRefreshToken = NoToken
        THEN Result(Sent(200, "Successfully signed out!", NoToken), us, nt)
      ELSE IF ~receivedRefreshToken.signed
        THEN Result(Thrown("JsonWebTokenError", "invalid signature"), us, nt)
      ELSE IF ~jwtVerify(receivedRefreshToken, exp)
        THEN Result(Thrown("TokenExpiredError", "jwt expired"), us, nt)
      ELSE IF foundUser = Null
        THEN Result(Thrown("TypeError", "Cannot read property 'refreshTokens' of null"),
                    us, nt)
      ELSE Result(Sent(200, "Successfully signed out!", NoToken),
                  UpdateRefreshTokens(us, receivedRefreshToken.username,
                    FilterOut(foundUser.refreshTokens, receivedRefreshToken)),
                  nt)

\* sync answering with every todo of the user, completed or not.
sync_withCompleted(tds, username, foundUser) ==
  IF foundUser = Null
    THEN [status |-> 0, err |-> "TypeError",
          message |-> "Cannot destructure property 'firstName' of null",
          tokens |-> NoToken, todos |-> {}]
  ELSE [status |-> 200, err |-> NoError, message |-> "Successfully synced!",
        tokens |-> NoToken,
        todos |-> {t \in tds : t.username = username}]

\* sync for the identity the request context names: the destructuring of
\* the user found throws on null; Todo.find({username, completed: false}).
sync(tds, username, foundUser) ==
  IF foundUser = Null
    THEN [status |-> 0, err |-> "TypeError",
          message |-> "Cannot destructure property 'firstName' of null",
          tokens |-> NoToken, todos |-> {}]
  ELSE [status |-> 200, err |-> NoError, message |-> "Successfully synced!",
        tokens |-> NoToken,
        todos |-> {t \in tds : t.username = username /\ ~t.completed}]

\* ------------------------------------------------------------ Authorize
\* Each gate is an operator to the error it passes to next ("none": next()).
authorizeUser(foundUser) ==
  IF foundUser = Null THEN "AuthorizationError" ELSE NoError

\* ObjectId(todoId) throws on a malformed id, foundTodo.username throws on
\* null; both throws are caught and passed to next.
MalformedId == 0
authorizeTodo(username, todoId, foundTodo) ==
  IF todoId = MalformedId THEN "Error"
  ELSE IF foundTodo = Null THEN "TypeError"
  ELSE IF foundTodo.username # username THEN "AuthorizationError"
  ELSE NoError

\* The handler behind the gates: marks the todo completed.
updateTodo(tds, todoId) ==
  {IF t.id = todoId THEN [t EXCEPT !.completed = TRUE] ELSE t : t \in tds}

\* ---------------------------------------------------------------- requests
NoCredentials ==
  [signedCookie |-> NoToken, cookie |-> NoToken, header |-> NoToken, body |-> NoToken]
ChannelNames == {"signedCookie", "cookie", "header", "body"}

\* A request carries no refresh token, or one token in one channel: one a
\* client was handed, or a forgery.
TransportRequests ==
  {NoCredentials, [NoCredentials EXCEPT !.signedCookie = Forged("johndoe")]}
    \cup {[NoCredentials EXCEPT ![c] = t] : c \in ChannelNames, t \in issued}

\* Well-formed bodies, and the bodies with one malformed field.
ValidSignUpBodies ==
  [firstName : FirstNames, username : LocalUsernames, email : Emails, password : Passwords]
SignUpBodies ==
  ValidSignUpBodies
    \cup {[b EXCEPT ![f] = Invalid] :
            b \in {[firstName |-> "John", username |-> "johndoe",
                    email |-> "john@doe.com", password |-> "johndoe"]},
            f \in {"firstName", "username", "email", "password"}}
ValidSignInBodies ==
  [userIdentifier : LocalUsernames \cup Emails \cup {UnknownIdentifier},
   password : Passwords \cup {WrongPassword}]
SignInBodies ==
  ValidSignInBodies
    \cup {[userIdentifier |-> Invalid, password |-> "johndoe"],
          [userIdentifier |-> "johndoe", password |-> Invalid]}
GooglePayloads == [sub : GoogleSubs, email : Emails] \cup {NoPayload}
PathUsernames == LocalUsernames \cup {UnknownIdentifier}
TodoIds == MalformedId..(MaxTodos + 1)

Handed(out) == {out.tokens} \ {NoToken}

\* What a call of handleRefreshToken returned or threw, without the store.
Outcome(h) == [err |-> h.err, message |-> h.message, refreshToken |-> h.refreshToken]
Idle == [op |-> "none"]

\* Clients whose requests the server handles concurrently.
Clients == {"c1", "c2"}
NoRequest == [op |-> "none"]

Init ==
  /\ users = {}
  /\ socials = {}
  /\ todos = {}
  /\ nextTok = 1
  /\ issued = {}
  /\ expired = 0
  /\ rotated = {}
  /\ signedOut = {}
  /\ resp = Idle
  /\ inflight = [c \in Clients |-> NoRequest]

RefreshTokenRequest ==
  \E req \in TransportRequests :
    LET r == refreshToken(users, expired, nextTok, req) IN
    /\ resp = Idle
    /\ r.nextTok <= MaxTokens + 1
    /\ users' = r.users
    /\ nextTok' = r.nextTok
    /\ rotated' = IF r.out.err = NoError
                    THEN rotated \cup {refreshTokenReceived(req)} ELSE rotated
    /\ resp' = [op |-> "refreshToken", req |-> req, out |-> r.out,
                before |-> users,
                rotation |-> Outcome(handleRefreshToken(users, expired, nextTok,
                                                        refreshTokenReceived(req)))]
    /\ UNCHANGED <<socials, todos, issued, expired, signedOut, inflight>>

\* A refresh request that arrives while the store cannot be reached.
RefreshTokenStoreFailure ==
  \E req \in TransportRequests :
    LET r == refreshTokenResult(users, nextTok, StoreFailure(users)) IN
    /\ resp = Idle
    /\ resp' = [op |-> "refreshToken", req |-> req, out |-> r.out,
                before |-> users, rotation |-> Outcome(StoreFailure(users))]
    /\ UNCHANGED <<users, socials, todos, nextTok, issued, expired, rotated, signedOut,
                   inflight>>

SignUpRequest ==
  \E body \in SignUpBodies :
  \E existedUser \in FindOne({u \in users : u.username = body.username
                                               \/ u.email = body.email}) :
    LET r == signUp(users, nextTok, body, existedUser) IN
    /\ resp = Idle
    /\ r.nextTok <= MaxTokens + 1
    /\ users' = r.users
    /\ nextTok' = r.nextTok
    /\ resp' = [op |-> "signUp", req |-> body, out |-> r.out,
                before |-> users]
    /\ UNCHANGED <<socials, todos, issued, expired, rotated, signedOut, inflight>>

SignInRequest ==
  \E body \in SignInBodies :
  \E signInUser \in FindOne({u \in users : u.username = body.userIdentifier
                                              \/ u.email = body.userIdentifier}) :
    LET r == signIn(users, nextTok, body, signInUser) IN
    /\ resp = Idle
    /\ r.nextTok <= MaxTokens + 1
    /\ users' = r.users
    /\ nextTok' = r.nextTok
    /\ resp' = [op |-> "signIn", req |-> body, out |-> r.out,
                before |-> users]
    /\ UNCHANGED <<socials, todos, issued, expired, rotated, signedOut, inflight>>

GoogleSignInRequest ==
  \E payload \in GooglePayloads :
  \E existingUser \in FindOne({u \in users : u.email = payload.email}) :
  \E existingSocial \in FindOne({so \in socials : so.name = "google"
                                                      /\ so.socialId = payload.sub}) :
    LET r == googleSignIn(users, socials, nextTok, payload, existingUser, existingSocial) IN
    /\ resp = Idle
    /\ r.nextTok <= MaxTokens + 1
    /\ users' = r.users
    /\ socials' = r.socials
    /\ nextTok' = r.nextTok
    /\ resp' = [op |-> "googleSignIn", req |-> payload, out |-> r.out,
                before |-> users, socialsBefore |-> socials]
    /\ UNCHANGED <<todos, issued, expired, rotated, signedOut, inflight>>

SignOutRequest ==
  \E req \in TransportRequests :
  \E foundUser \in FindOne({u \in users : u.username = signOutReceived(req).username}) :
    LET r == signOut(users, expired, nextTok, req, foundUser) IN
    /\ resp = Idle
    /\ users' = r.users
    /\ resp' = [op |-> "signOut", req |-> req, out |-> r.out,
                before |-> users]
    /\ UNCHANGED <<socials, todos, nextTok, issued, expired, rotated, signedOut,
                   inflight>>

\* A sync request; the request context names the identity.
SyncRequest ==
  \E username \in PathUsernames :
  \E foundUser \in FindOne({u \in users : u.username = username}) :
    /\ resp = Idle
    /\ resp' = [op |-> "sync", req |-> [username |-> username],
                out |-> sync(todos, username, foundUser),
                before |-> users, todosBefore |-> todos]
    /\ UNCHANGED <<users, socials, todos, nextTok, issued, expired, rotated, signedOut,
                   inflight>>

\* Time passes the expiry of the oldest live refresh token: all refresh
\* tokens have the same lifetime, so they expire in the order they were minted.
Expire ==
  /\ resp = Idle
  /\ expired < nextTok - 1
  /\ expired' = expired + 1
  /\ UNCHANGED <<users, socials, todos, nextTok, issued, rotated, signedOut, resp,
               inflight>>

\* An authenticated user creates a todo for themselves.
CreateTodo ==
  \E u \in users :
    /\ resp = Idle
    /\ Cardinality(todos) < MaxTodos
    /\ todos' = todos \cup {[id |-> Cardinality(todos) + 1, username |-> u.username,
                             completed |-> FALSE]}
    /\ UNCHANGED <<users, socials, nextTok, issued, expired, rotated, signedOut, resp,
                 inflight>>

\* A request to /{username}/todos/{todoId} made by the authenticated user
\* `actor`: authorizeUser, then authorizeTodo, then the handler; a gate that
\* passes an error to next ends the chain.
TodoRequest ==
  \E actor \in users, username \in PathUsernames, todoId \in TodoIds :
  \E foundUser \in FindOne({u \in users : u.username = username}) :
  \E foundTodo \in FindOne({t \in todos : t.id = todoId}) :
    LET userGate == authorizeUser(foundUser)
        todoGate == IF userGate = NoError
                      THEN authorizeTodo(username, todoId, foundTodo)
                      ELSE "skipped"
        handled == userGate = NoError /\ todoGate = NoError
    IN
    /\ resp = Idle
    /\ todos' = IF handled THEN updateTodo(todos, todoId) ELSE todos
    /\ resp' = [op |-> "todo",
                req |-> [actor |-> actor.username, username |-> username,
                         todoId |-> todoId],
                userGate |-> userGate, todoGate |-> todoGate, handled |-> handled,
                before |-> todos]
    /\ UNCHANGED <<users, socials, nextTok, issued, expired, rotated, signedOut,
                 inflight>>

\* The client receives the outcome, and with it the tokens handed out.
Deliver ==
  /\ resp # Idle
  /\ issued' = IF resp.op = "todo" THEN issued ELSE issued \cup Handed(resp.out)
  /\ resp' = Idle
  /\ UNCHANGED <<users, socials, todos, nextTok, expired, rotated, signedOut, inflight>>

Next ==
  \/ RefreshTokenRequest
  \/ SignUpRequest
  \/ SignInRequest
  \/ GoogleSignInRequest
  \/ SignOutRequest
  \/ SyncRequest
  \/ Expire
  \/ Deliver

Spec == Init /\ [][Next]_vars

NextTodo ==
  \/ SignUpRequest
  \/ CreateTodo
  \/ TodoRequest
  \/ SyncRequest
  \/ Deliver

SpecTodo == Init /\ [][NextTodo]_vars

\* Refresh requests, also while the store cannot be reached.
NextRefresh ==
  \/ SignUpRequest
  \/ SignInRequest
  \/ RefreshTokenRequest
  \/ RefreshTokenStoreFailure
  \/ Expire
  \/ Deliver

SpecRefresh == Init /\ [][NextRefresh]_vars

\* Social sign-in against a store that already holds a user who signed up
\* locally and whose sessions have ended (signed out), so that the token
\* budget is left to the Google sign-ins.
LocalUser ==
  [username |-> "johndoe", email |-> "john@doe.com", isPasswordSet |-> TRUE,
   password |-> Hash("johndoe"), refreshTokens |-> <<>>]

InitGoogle ==
  /\ users = {LocalUser}
  /\ socials = {}
  /\ todos = {}
  /\ nextTok = 1
  /\ issued = {}
  /\ expired = 0
  /\ rotated = {}
  /\ signedOut = {}
  /\ resp = Idle
  /\ inflight = [c \in Clients |-> NoRequest]

NextGoogle ==
  \/ SignUpRequest
  \/ SignInRequest
  \/ GoogleSignInRequest
  \/ Deliver

SpecGoogle == InitGoogle /\ [][NextGoogle]_vars

\* ------------------------------------------------- interleaved requests
\* A handler is suspended at each call to the store; the requests of other
\* clients run in between.  A request's reads are kept in the client's slot
\* until its writes; its terminal outcome stays there until the client has
\* received it.
Done(was, out) == [op |-> "done", was |-> was, out |-> out]

\* signUp up to User.findOne (well-formed input: validation has passed).
SignUpFind(c) ==
  \E body \in ValidSignUpBodies :
  \E existedUser \in FindOne({u \in users : u.username = body.username
                                               \/ u.email = body.email}) :
    /\ inflight[c] = NoRequest
    /\ inflight' = [inflight EXCEPT ![c] =
                      [op |-> "signUp", body |-> body, existedUser |-> existedUser]]
    /\ UNCHANGED <<users, socials, todos, nextTok, issued, expired, rotated, signedOut,
                   resp>>

\* signUp from the check of the document found to User.create and the response.
SignUpCreate(c) ==
  LET was == inflight[c]
      r == signUp(users, nextTok, was.body, was.existedUser)
  IN
  /\ was.op = "signUp"
  /\ r.nextTok <= MaxTokens + 1
  /\ users' = r.users
  /\ nextTok' = r.nextTok
  /\ inflight' = [inflight EXCEPT ![c] = Done(was, r.out)]
  /\ UNCHANGED <<socials, todos, issued, expired, rotated, signedOut, resp>>

\* googleSignIn up to User.findOne (the id token has been verified).
GoogleFindUser(c) ==
  \E payload \in GooglePayloads \ {NoPayload} :
  \E existingUser \in FindOne({u \in users : u.email = payload.email}) :
    /\ inflight[c] = NoRequest
    /\ inflight' = [inflight EXCEPT ![c] =
                      [op |-> "googleSignIn", at |-> "Social.findOne",
                       payload |-> payload, existingUser |-> existingUser,
                       existingSocial |-> Null]]
    /\ UNCHANGED <<users, socials, todos, nextTok, issued, expired, rotated, signedOut,
                   resp>>

\* googleSignIn: Social.findOne.
GoogleFindSocial(c) ==
  LET was == inflight[c] IN
  /\ was.op = "googleSignIn"
  /\ was.at = "Social.findOne"
  /\ \E existingSocial \in FindOne({so \in socials : so.name = "google"
                                           /\ so.socialId = was.payload.sub}) :
       inflight' = [inflight EXCEPT ![c] =
                      [was EXCEPT !.at = "create", !.existingSocial = existingSocial]]
  /\ UNCHANGED <<users, socials, todos, nextTok, issued, expired, rotated, signedOut,
                 resp>>

\* googleSignIn from the branch on the user found to the response.
GoogleCreate(c) ==
  LET was == inflight[c]
      r == googleSignIn(users, socials, nextTok, was.payload, was.existingUser,
                        was.existingSocial)
  IN
  /\ was.op = "googleSignIn"
  /\ was.at = "create"
  /\ r.nextTok <= MaxTokens + 1
  /\ users' = r.users
  /\ socials' = r.socials
  /\ nextTok' = r.nextTok
  /\ inflight' = [inflight EXCEPT ![c] = Done(was, r.out)]
  /\ UNCHANGED <<todos, issued, expired, rotated, signedOut, resp>>

\* refreshToken up to the call of handleRefreshToken.  `before` is the
\* store when the request arrived.
RefreshTokenArrive(c) ==
  \E t \in issued :
    /\ inflight[c] = NoRequest
    /\ inflight' = [inflight EXCEPT ![c] =
                      [op |-> "refreshToken",
                       req |-> [NoCredentials EXCEPT !.signedCookie = t],
                       before |-> users]]
    /\ UNCHANGED <<users, socials, todos, nextTok, issued, expired, rotated, signedOut,
                   resp>>

\* refreshToken from handleRefreshToken, one store operation, to the outcome.
RefreshTokenRotate(c) ==
  LET was == inflight[c]
      r == refreshToken(users, expired, nextTok, was.req)
  IN
  /\ was.op = "refreshToken"
  /\ r.nextTok <= MaxTokens + 1
  /\ users' = r.users
  /\ nextTok' = r.nextTok
  /\ rotated' = IF r.out.err = NoError
                  THEN rotated \cup {refreshTokenReceived(was.req)} ELSE rotated
  /\ inflight' = [inflight EXCEPT ![c] = Done(was, r.out)]
  /\ UNCHANGED <<socials, todos, issued, expired, signedOut, resp>>

\* The client receives the outcome of its request.
Receive(c) ==
  /\ inflight[c].op = "done"
  /\ issued' = issued \cup Handed(inflight[c].out)
  /\ inflight' = [inflight EXCEPT ![c] = NoRequest]
  /\ UNCHANGED <<users, socials, todos, nextTok, expired, rotated, signedOut, resp>>

\* signOut up to User.findOne: the token has been received and verified,
\* the user document read.  The missing user and the unverifiable token end
\* the request here.
SignOutFind(c) ==
  \E t \in issued :
  \E foundUser \in FindOne({u \in users : u.username = t.username}) :
    /\ inflight[c] = NoRequest
    /\ jwtVerify(t, expired)
    /\ foundUser # Null
    /\ inflight' = [inflight EXCEPT ![c] =
                      [op |-> "signOut",
                       req |-> [NoCredentials EXCEPT !.signedCookie = t],
                       foundUser |-> foundUser]]
    /\ UNCHANGED <<users, socials, todos, nextTok, issued, expired, rotated, signedOut,
                   resp>>

\* signOut from the filter of the list read to User.updateOne and the response.
SignOutUpdate(c) ==
  LET was == inflight[c]
      r == signOut(users, expired, nextTok, was.req, was.foundUser)
  IN
  /\ was.op = "signOut"
  /\ users' = r.users
  /\ signedOut' = IF r.out.status = 200
                    THEN signedOut \cup {signOutReceived(was.req)} ELSE signedOut
  /\ inflight' = [inflight EXCEPT ![c] = NoRequest]
  /\ UNCHANGED <<socials, todos, nextTok, issued, expired, rotated, resp>>

NextSignOut ==
  \/ SignUpRequest
  \/ SignInRequest
  \/ Deliver
  \/ \E c \in Clients : SignOutFind(c) \/ SignOutUpdate(c)

SpecSignOut == Init /\ [][NextSignOut]_vars

NextConc ==
  \E c \in Clients :
    \/ SignUpFind(c)
    \/ SignUpCreate(c)
    \/ GoogleFindUser(c)
    \/ GoogleFindSocial(c)
    \/ GoogleCreate(c)
    \/ RefreshTokenArrive(c)
    \/ RefreshTokenRotate(c)
    \/ Receive(c)

SpecConc == Init /\ [][NextConc]_vars

\* ------------------------------------------------------------------ claims
Allowlisted(us, t) == \E u \in us : InList(u.refreshTokens, t)

\* seq with every occurrence of t taken out, the rest in order.
RECURSIVE Without(_, _)
Without(seq, t) ==
  IF seq = <<>> THEN <<>>
  ELSE IF Head(seq) = t THEN Without(Tail(seq), t)
  ELSE <<Head(seq)>> \o Without(Tail(seq), t)

WellFormedSignUp(body) ==
  /\ CustomValidator_firstName(body.firstName) = NoError
  /\ CustomValidator_username(body.username) = NoError
  /\ CustomValidator_email(body.email) = NoError
  /\ CustomValidator_password(body.password) = NoError

WellFormedSignIn(body) ==
  /\ CustomValidator_userIdentifier(body.userIdentifier) = NoError
  /\ CustomValidator_password(body.password) = NoError

C2_SignOutRemovesExactly ==
  (/\ resp.op = "signOut"
   /\ jwtVerify(signOutReceived(resp.req), expired)
   /\ Allowlisted(resp.before, signOutReceived(resp.req)))
    => LET t == signOutReceived(resp.req) IN
       /\ resp.out.status = 200
       /\ resp.out.err = NoError
       /\ users = {IF InList(u.refreshTokens, t)
                     THEN [u EXCEPT !.refreshTokens = Without(@, t)]
                     ELSE u : u \in resp.before}

\* A sign-out took a listed token out and another token of the user stayed.
C2_Witness ==
  /\ resp.op = "signOut"
  /\ resp.out.status = 200
  /\ Allowlisted(resp.before, signOutReceived(resp.req))
  /\ \E u \in users : /\ u.username = signOutReceived(resp.req).username
                      /\ u.refreshTokens # <<>>
                      /\ ~InList(u.refreshTokens, signOutReceived(resp.req))

\* C3: signOut with a correctly signed but expired refresh token that is in
\* its user's allowlist responds 200 and takes the token out of the allowlist.
C3_SignOutExpired ==
  (/\ resp.op = "signOut"
   /\ signOutReceived(resp.req).signed
   /\ signOutReceived(resp.req).id <= expired
   /\ Allowlisted(resp.before, signOutReceived(resp.req)))
    => /\ resp.out.status = 200
       /\ resp.out.err = NoError
       /\ ~Allowlisted(users, signOutReceived(resp.req))

\* C4: signOut with no refresh token in any transport channel responds 200,
\* passes no error to next and leaves every allowlist unchanged.
C4_SignOutNoToken ==
  (resp.op = "signOut" /\ resp.req = NoCredentials)
    => /\ resp.out.status = 200
       /\ resp.out.err = NoError
       /\ users = resp.before

\* A sign-out without credentials was answered while a session was open.
C4_Witness ==
  /\ resp.op = "signOut"
  /\ resp.req = NoCredentials
  /\ resp.out.status = 200
  /\ \E u \in users : u.refreshTokens # <<>>

\* C5: a request by the authenticated user A on a todo owned by another user
\* never reaches the handler and ends in AuthorizationError, for every
\* username in the path; the owner asking under their own username passes.
C5_TodoOwnership ==
  resp.op = "todo" =>
    \A td \in resp.before :
      td.id = resp.req.todoId =>
        /\ td.username # resp.req.actor
             => /\ ~resp.handled
                /\ "AuthorizationError" \in {resp.userGate, resp.todoGate}
        /\ (td.username = resp.req.actor /\ resp.req.username = resp.req.actor)
             => resp.handled

\* C6: authorizeTodo, when no Todo has the given id, passes an error named
\* AuthorizationError to next and does not call next without an error.
C6_MissingTodo ==
  (/\ resp.op = "todo"
   /\ resp.userGate = NoError
   /\ resp.req.todoId # MalformedId
   /\ \A td \in resp.before : td.id # resp.req.todoId)
    => resp.todoGate = "AuthorizationError"

\* C7: a gate calls next without an error only when its check passes (a User
\* has the path username; the Todo's username is the path username); when
\* the check fails (for a well-formed todo id) it passes an
\* AuthorizationError, the handler does not run and no record changes.
C7_Gates ==
  resp.op = "todo" =>
    LET userPasses == \E u \in users : u.username = resp.req.username
        todoPasses == \E td \in resp.before : /\ td.id = resp.req.todoId
                                              /\ td.username = resp.req.username
    IN  /\ resp.userGate = NoError => userPasses
        /\ resp.todoGate = NoError => todoPasses
        /\ ~userPasses => /\ resp.userGate = "AuthorizationError"
                          /\ ~resp.handled
                          /\ todos = resp.before
        /\ (userPasses /\ ~todoPasses /\ resp.req.todoId # MalformedId)
             => /\ resp.todoGate = "AuthorizationError"
                /\ ~resp.handled
                /\ todos = resp.before

\* C8: local signIn with well-formed input fails with NotFoundError ("User
\* not found, please sign up first!") when no user has the identifier as
\* username or email, and with BadRequestError ("Wrong username or
\* password!") when the user exists and the password does not match; no
\* tokens are returned in either case.
C8_SignInFailures ==
  (resp.op = "signIn" /\ WellFormedSignIn(resp.req)) =>
    LET named == {u \in resp.before : \/ u.username = resp.req.userIdentifier
                                      \/ u.email = resp.req.userIdentifier}
    IN  /\ named = {}
             => /\ resp.out.err = "NotFoundError"
                /\ resp.out.message = "User not found, please sign up first!"
                /\ resp.out.tokens = NoToken
        /\ \A u \in named :
             compareSync(resp.req.password, u.password) # "true"
               => /\ resp.out.err = "BadRequestError"
                  /\ resp.out.message = "Wrong username or password!"
                  /\ resp.out.tokens = NoToken

\* C9: signUp with well-formed input whose username and email no user has
\* responds 201 and persists the user with the minted refresh token as its
\* allowlist; a local signIn naming a user so created, by username or by
\* email, with the password it signed up with responds 200 with tokens.
C9_SignUpThenSignIn ==
  /\ (/\ resp.op = "signUp"
      /\ WellFormedSignUp(resp.req)
      /\ \A u \in resp.before : /\ u.username # resp.req.username
                                /\ u.email # resp.req.email)
       => /\ resp.out.status = 201
          /\ resp.out.err = NoError
          /\ resp.out.tokens # NoToken
          /\ \E u \in users :
               /\ users = resp.before \cup {u}
               /\ u.username = resp.req.username
               /\ u.email = resp.req.email
               /\ u.isPasswordSet
               /\ compareSync(resp.req.password, u.password) = "true"
               /\ u.refreshTokens = <<resp.out.tokens>>
  /\ (/\ resp.op = "signIn"
      /\ WellFormedSignIn(resp.req)
      /\ \E u \in resp.before :
           /\ u.isPasswordSet
           /\ resp.req.userIdentifier \in {u.username, u.email}
           /\ compareSync(resp.req.password, u.password) = "true")
       => /\ resp.out.status = 200
          /\ resp.out.err = NoError
          /\ resp.out.tokens # NoToken
          /\ Allowlisted(users, resp.out.tokens)

\* A user who signed up has signed in by email with the same password.
C9_Witness ==
  /\ resp.op = "signIn"
  /\ resp.out.status = 200
  /\ resp.req.userIdentifier \in Emails
  /\ \E u \in users : /\ u.email = resp.req.userIdentifier
                      /\ u.isPasswordSet
                      /\ Len(u.refreshTokens) = 2

\* C10: signUp with well-formed input whose username is an existing user's
\* fails with AlreadyExistsError reporting the username, also when the email
\* is that of another existing user; when only the email collides it fails
\* with AlreadyExistsError reporting the email; no user is created.
C10_SignUpDuplicates ==
  (resp.op = "signUp" /\ WellFormedSignUp(resp.req)) =>
    LET sameUsername == \E u \in resp.before : u.username = resp.req.username
        sameEmail == \E u \in resp.before : u.email = resp.req.email
    IN  /\ sameUsername
             => /\ resp.out.err = "AlreadyExistsError"
                /\ resp.out.message = "Username isn't available."
                /\ users = resp.before
        /\ (sameEmail /\ ~sameUsername)
             => /\ resp.out.err = "AlreadyExistsError"
                /\ resp.out.message = "Email isn't available."
                /\ users = resp.before

C12_SocialLinks ==
  /\ \A s1 \in socials : \A s2 \in socials :
       (s1.name = s2.name /\ s1.socialId = s2.socialId) => s1 = s2
  /\ \A so \in socials :
       Cardinality({u \in users : u.username = so.userId}) = 1

\* C13: a user created without a password (isPasswordSet = FALSE, created
\* by googleSignIn) never obtains a successful local signIn response (200
\* with tokens), whatever password is submitted.
C13_PasswordlessNoLocalSignIn ==
  (/\ resp.op = "signIn"
   /\ \E u \in resp.before :
        /\ ~u.isPasswordSet
        /\ resp.req.userIdentifier \in {u.username, u.email})
    => /\ resp.out.status # 200
       /\ resp.out.tokens = NoToken

\* A local sign-in with well-formed input named a user googleSignIn created
\* and ended in the throw of compareSync.
C13_Witness ==
  /\ resp.op = "signIn"
  /\ WellFormedSignIn(resp.req)
  /\ \E u \in resp.before :
       /\ ~u.isPasswordSet
       /\ u.password = NoPassword
       /\ resp.req.userIdentifier = u.email
  /\ resp.out.err = "Error"

\* C14: googleSignIn with a verified identity: when no User has the verified
\* email it creates exactly one User with isPasswordSet = FALSE and one
\* Social linking google and the subject to it and responds 201; when a User
\* with that email exists it creates no User, creates a Social link if and
\* only if none exists for google and the subject, and responds 200 (so
\* repeating the same sign-in creates no further records).
C14_GoogleSignIn ==
  (resp.op = "googleSignIn" /\ resp.req # NoPayload) =>
    LET matched == {u \in resp.before : u.email = resp.req.email}
        linked == {so \in resp.socialsBefore : /\ so.name = "google"
                                                /\ so.socialId = resp.req.sub}
        newLink(so) == /\ so \notin resp.socialsBefore
                       /\ so.name = "google"
                       /\ so.socialId = resp.req.sub
    IN  IF matched = {}
          THEN /\ resp.out.status = 201
               /\ \E u \in users : \E so \in socials :
                    /\ users = resp.before \cup {u}
                    /\ u \notin resp.before
                    /\ ~u.isPasswordSet
                    /\ u.email = resp.req.email
                    /\ socials = resp.socialsBefore \cup {so}
                    /\ newLink(so)
                    /\ so.userId = u.username
          ELSE /\ resp.out.status = 200
               /\ {u.username : u \in users} = {u.username : u \in resp.before}
               /\ Cardinality(users) = Cardinality(resp.before)
               /\ IF linked = {}
                    THEN \E so \in socials :
                           /\ socials = resp.socialsBefore \cup {so}
                           /\ newLink(so)
                           /\ \E u \in matched : so.userId = u.username
                    ELSE socials = resp.socialsBefore

\* The request client c has in progress or has just completed.
RequestOf(c) == IF inflight[c].op = "done" THEN inflight[c].was ELSE inflight[c]

\* Clients c1 and c2 have refresh requests in progress that present the
\* same refresh token, which verified and was in its user's allowlist when
\* each of them arrived.
SameTokenRefreshes(c1, c2) ==
  /\ c1 # c2
  /\ RequestOf(c1).op = "refreshToken"
  /\ RequestOf(c2).op = "refreshToken"
  /\ RequestOf(c1).req = RequestOf(c2).req
  /\ jwtVerify(refreshTokenReceived(RequestOf(c1).req), expired)
  /\ Allowlisted(RequestOf(c1).before, refreshTokenReceived(RequestOf(c1).req))
  /\ Allowlisted(RequestOf(c2).before, refreshTokenReceived(RequestOf(c2).req))

C17_SignOutIdempotent ==
  (/\ resp.op = "signOut"
   /\ jwtVerify(signOutReceived(resp.req), expired)
   /\ \E u \in resp.before : u.username = signOutReceived(resp.req).username
   /\ ~Allowlisted(resp.before, signOutReceived(resp.req)))
    => /\ resp.out.status = 200
       /\ resp.out.err = NoError
       /\ users = resp.before

\* A token an earlier sign-out had removed (minted for a local user, never
\* rotated) was presented to signOut again, while its user had another
\* session open; the answer was 200.
C17_Witness ==
  /\ resp.op = "signOut"
  /\ resp.out.status = 200
  /\ signOutReceived(resp.req) \in issued \ rotated
  /\ signOutReceived(resp.req).username \in LocalUsernames
  /\ ~Allowlisted(resp.before, signOutReceived(resp.req))
  /\ users = resp.before
  /\ \E u \in users : /\ u.username = signOutReceived(resp.req).username
                      /\ u.refreshTokens # <<>>

\* C18: a local signIn that fails on password mismatch (BadRequestError)
\* mints no session: every allowlist is the same after the failed request
\* as before it.
C18_FailedSignInMintsNothing ==
  (resp.op = "signIn" /\ resp.out.err = "BadRequestError")
    => users = resp.before

\* C19: under any interleaving of requests for the same user, once a
\* signOut presenting token t has completed, t is not in that user's
\* allowlist and does not reappear; and the write of a signOut removes the
\* presented token only: a refresh token appended by a sign-in that has
\* completed is not removed by a concurrent signOut of a different token.
C19_SignOutLosesNoUpdate ==
  [][/\ \A t \in signedOut' : ~Allowlisted(users', t)
     /\ \A c \in Clients :
          (inflight[c].op = "signOut" /\ inflight'[c] = NoRequest)
            => LET t == signOutReceived(inflight[c].req) IN
               users' = {[u EXCEPT !.refreshTokens = Without(@, t)] : u \in users}]_vars

\* C20: the refreshToken controller maps a RefreshTokenError from rotation
\* to an AuthorizationError carrying the same message and passes every
\* other error to next unchanged; on any failure it hands out no tokens,
\* sends no response and leaves the store as it was; on success it returns
\* the new token pair with status 200.
C20_RefreshTokenOutcome ==
  resp.op = "refreshToken" =>
    /\ resp.rotation.err = "RefreshTokenError"
         => /\ resp.out.err = "AuthorizationError"
            /\ resp.out.message = resp.rotation.message
    /\ resp.rotation.err \notin {NoError, "RefreshTokenError"}
         => /\ resp.out.err = resp.rotation.err
            /\ resp.out.message = resp.rotation.message
    /\ resp.rotation.err # NoError
         => /\ resp.out.status = 0
            /\ resp.out.tokens = NoToken
            /\ users = resp.before
    /\ resp.rotation.err = NoError
         => /\ resp.out.status = 200
            /\ resp.out.err = NoError
            /\ resp.out.tokens = resp.rotation.refreshToken
            /\ resp.out.tokens # NoToken
            /\ Allowlisted(users, resp.out.tokens)

\* A refresh request was handed a new pair, and one presenting a listed
\* token failed on the store with the store's own error passed on.
C20_Witness ==
  /\ resp.op = "refreshToken"
  /\ resp.rotation.err = "MongoError"
  /\ resp.out.err = "MongoError"
  /\ Allowlisted(users, refreshTokenReceived(resp.req))
  /\ rotated # {}

\* C21: every request handled by signUp, signIn, googleSignIn, refreshToken,
\* signOut or sync ends in exactly one terminal outcome: either one response
\* is sent or one error is passed to next, never both and never neither, in
\* every store state (including the signUp branch where an existing user
\* was found).
C21_OneOutcome ==
  resp.op \in {"signUp", "signIn", "googleSignIn", "refreshToken", "signOut", "sync"}
    => \/ resp.out.status # 0 /\ resp.out.err = NoError
       \/ resp.out.status = 0 /\ resp.out.err # NoError

\* A sign-up found an existing user who has its email but another username,
\* and ended with the error passed to next.
C21_Witness ==
  /\ resp.op = "signUp"
  /\ WellFormedSignUp(resp.req)
  /\ \E u \in resp.before : u.email = resp.req.email
  /\ \A u \in resp.before : u.username # resp.req.username
  /\ resp.out.status = 0
  /\ resp.out.err = "AlreadyExistsError"

\* C22: when googleSignIn matches an existing User by the verified email,
\* the identity claims of the minted tokens name that user (its stored
\* username), and the returned refresh token is in that user's allowlist,
\* so that it can later be rotated.
C22_GoogleTokenNamesUser ==
  (resp.op = "googleSignIn" /\ resp.out.status = 200) =>
    \A u \in resp.before :
      u.email = resp.req.email
        => /\ resp.out.tokens.username = u.username
           /\ \E v \in users : /\ v.username = u.username
                               /\ InList(v.refreshTokens, resp.out.tokens)

\* C23: sync, for an authenticated identity u that has a User record,
\* returns exactly the todos whose owner username is u and whose completed
\* flag is false (no todo of another user, no completed todo), with status
\* 200, and changes no stored record.
C23_Sync ==
  (/\ resp.op = "sync"
   /\ \E u \in resp.before : u.username = resp.req.username)
    => /\ resp.out.status = 200
       /\ resp.out.err = NoError
       /\ resp.out.todos = {t \in resp.todosBefore :
                              t.username = resp.req.username /\ ~t.completed}
       /\ users = resp.before
       /\ todos = resp.todosBefore

\* A sync returned a pending todo of the user and left out a completed todo
\* of the same user.
C23_Witness ==
  /\ resp.op = "sync"
  /\ resp.out.status = 200
  /\ resp.out.todos # {}
  /\ \E t \in todos : t.username = resp.req.username /\ t.completed

====
